---------------------------- MODULE Spec2Model ----------------------------
(***************************************************************************)
(* A model of the example notebooks of this repository: the six JumpStart  *)
(* notebooks (text embedding, extractive question answering, instance      *)
(* segmentation, tabular regression, semantic segmentation, image          *)
(* embedding) and the multi-hop lineage notebook.  A notebook is a         *)
(* sequence of cells run top to bottom by one kernel; the state is the     *)
(* kernel's namespace and the resources the calls create in the account.   *)
(***************************************************************************)
EXTENDS Integers, Sequences, FiniteSets, TLC

(***************************************************************************)
(* Strings the code searches inside are sequences of characters, so that   *)
(* Python's substring test `marker in model_id` is computed, not assumed.  *)
(***************************************************************************)

\* "tensorflow-tcembedding-bert-en-uncased-L-10-H-128-A-2-2"
TcEmbeddingDefault ==
    <<"t","e","n","s","o","r","f","l","o","w","-","t","c","e","m","b","e","d","d","i",
      "n","g","-","b","e","r","t","-","e","n","-","u","n","c","a","s","e","d","-","L",
      "-","1","0","-","H","-","1","2","8","-","A","-","2","-","2">>

\* "pytorch-eqa-bert-base-uncased"
EqaDefault ==
    <<"p","y","t","o","r","c","h","-","e","q","a","-","b","e","r","t","-","b","a","s",
      "e","-","u","n","c","a","s","e","d">>

\* "mxnet-is-mask-rcnn-fpn-resnet101-v1d-coco"
IsDefault ==
    <<"m","x","n","e","t","-","i","s","-","m","a","s","k","-","r","c","n","n","-","f",
      "p","n","-","r","e","s","n","e","t","1","0","1","-","v","1","d","-","c","o","c",
      "o">>

\* "mxnet-semseg-fcn-resnet50-ade"
SemsegDefault ==
    <<"m","x","n","e","t","-","s","e","m","s","e","g","-","f","c","n","-","r","e","s",
      "n","e","t","5","0","-","a","d","e">>

\* "tensorflow-icembedding-bit-m-r101x1-ilsvrc2012-featurevector-1"
IcEmbeddingDefault ==
    <<"t","e","n","s","o","r","f","l","o","w","-","i","c","e","m","b","e","d","d","i",
      "n","g","-","b","i","t","-","m","-","r","1","0","1","x","1","-","i","l","s","v",
      "r","c","2","0","1","2","-","f","e","a","t","u","r","e","v","e","c","t","o","r",
      "-","1">>

\* "-tcembedding-"
TcEmbeddingMarker ==
    <<"-","t","c","e","m","b","e","d","d","i","n","g","-">>

\* "-eqa-"
EqaMarker ==
    <<"-","e","q","a","-">>

\* "-is-"
IsMarker ==
    <<"-","i","s","-">>

\* "-semseg-"
SemsegMarker ==
    <<"-","s","e","m","s","e","g","-">>

\* "-icembedding-"
IcEmbeddingMarker ==
    <<"-","i","c","e","m","b","e","d","d","i","n","g","-">>

\* "huggingface-eqa-bert-base-cased": a second question-answering model of the manifest
EqaOther ==
    <<"h","u","g","g","i","n","g","f","a","c","e","-","e","q","a","-","b","e","r","t",
      "-","b","a","s","e","-","c","a","s","e","d">>

\* "sklearn-eqa": ends with the marker's text but has no trailing dash
EqaSuffixOnly ==
    <<"s","k","l","e","a","r","n","-","e","q","a">>

\* "xgboost-regression-model" (no selection marker at all)
TabularModelId ==
    <<"x","g","b","o","o","s","t","-","r","e","g","r","e","s","s","i","o","n","-","m",
      "o","d","e","l">>

(***************************************************************************)
(* Bounds of the model.                                                    *)
(***************************************************************************)
\* longest manifest whose filtering is followed statement by statement
MaxManifest == 3

\* the model ids a manifest entry may carry
ManifestIds ==
    {TcEmbeddingDefault, EqaDefault, EqaOther, IsDefault, SemsegDefault,
     IcEmbeddingDefault, EqaSuffixOnly}

\* the markers the notebooks filter the manifest by
Markers ==
    {TcEmbeddingMarker, EqaMarker, IsMarker, SemsegMarker, IcEmbeddingMarker}

SeqsUpTo(S, n) == UNION {[1..k -> S] : k \in 0..n}

\* a manifest is a JSON array of descriptors, each with a "model_id"
ManifestEntries == {[model_id |-> id] : id \in ManifestIds}

(***************************************************************************)
(* Python's `sub in s` on strings and `x in l` on lists.                   *)
(***************************************************************************)
Contains(sub, s) ==
    \E i \in 0..(Len(s) - Len(sub)) : SubSeq(s, i + 1, i + Len(sub)) = sub

InList(x, l) == \E i \in 1..Len(l) : l[i] = x

(***************************************************************************)
(* The manifest filter, loop form:                                         *)
(*     for model in model_list:                                            *)
(*         model_id = model["model_id"]                                    *)
(*         if marker in model_id and model_id not in models:               *)
(*             models.append(model_id)                                     *)
(***************************************************************************)
LoopBodyNoDedup(models, model, marker) ==
    IF Contains(marker, model.model_id)
    THEN Append(models, model.model_id)
    ELSE models

LoopBody(models, model, marker) ==
    IF Contains(marker, model.model_id) /\ ~InList(model.model_id, models)
    THEN Append(models, model.model_id)
    ELSE models

RECURSIVE FilterLoopFrom(_, _, _, _)
FilterLoopFrom(model_list, marker, i, models) ==
    IF i > Len(model_list) THEN models
    ELSE FilterLoopFrom(model_list, marker, i + 1, LoopBody(models, model_list[i], marker))

FilterLoop(model_list, marker) == FilterLoopFrom(model_list, marker, 1, <<>>)

(***************************************************************************)
(* The question-answering notebook's form:                                 *)
(*     eqa_models_all_versions, eqa_models = [                             *)
(*         model["model_id"] for model in model_list                       *)
(*         if "-eqa-" in model["model_id"]], []                            *)
(*     [eqa_models.append(model) for model in eqa_models_all_versions      *)
(*      if model not in eqa_models]                                        *)
(***************************************************************************)
RECURSIVE ListComprehension(_, _)
ListComprehension(model_list, marker) ==
    IF model_list = <<>> THEN <<>>
    ELSE LET rest == ListComprehension(Tail(model_list), marker)
         IN  IF Contains(marker, Head(model_list).model_id)
             THEN <<Head(model_list).model_id>> \o rest
             ELSE rest

DedupBody(eqa_models, model) ==
    IF ~InList(model, eqa_models) THEN Append(eqa_models, model) ELSE eqa_models

RECURSIVE DedupFrom(_, _, _)
DedupFrom(all_versions, i, eqa_models) ==
    IF i > Len(all_versions) THEN eqa_models
    ELSE DedupFrom(all_versions, i + 1, DedupBody(eqa_models, all_versions[i]))

FilterComprehension(model_list, marker) ==
    DedupFrom(ListComprehension(model_list, marker), 1, <<>>)

(***************************************************************************)
(* State.                                                                  *)
(*  model_list, marker, mf_*  the statement-by-statement run of the two    *)
(*                       manifest filters                                  *)
(*  nb, cell, stmt, ...  a top-to-bottom run of one JumpStart notebook     *)
(***************************************************************************)
VARIABLES
    \* ---- the manifest filters, statement by statement
    model_list,        \* json.load(models_manifest.json)
    marker,            \* the marker the filter looks for
    mf_pc,             \* "loop", "comprehension", "dedup" or "done"
    mf_i,              \* position of the running for loop
    loop_models,       \* the list the loop form builds
    all_versions,      \* eqa_models_all_versions
    eqa_models,        \* the list the comprehension form builds
    \* ---- a JumpStart notebook run
    nb,                \* the notebook that runs
    manifest,          \* models_manifest.json as the bucket holds it
    cell,              \* the cell that runs next
    stmt,              \* the statement of that cell that runs next
    status,            \* "running", "error" or "done"
    error,             \* the exception that stopped the run
    ns,                \* the kernel's global namespace
    names_made,        \* how many names name_from_base has produced
    endpoints,         \* endpoint name -> "none", "InService", "Deleted"
    models,            \* the model behind each endpoint: "none", "Created", "Deleted"
    files,             \* the files written to the working directory
    events,            \* the hosting calls and file downloads so far, in order
    skipped,           \* the cells the user skipped
    selected,          \* whether the user picked an entry of the dropdown
    \* ---- the lineage notebook run
    ln_pc,             \* the statement of the notebook that runs next
    ln_at,             \* the place inside that statement ("" at its start)
    ln_i,              \* position of the running outer loop
    ln_j,              \* position of the running inner loop
    ln_trials,         \* experiment.list_trials(), as fetched
    ln_comps,          \* trial.list_trial_components(), as fetched
    ln_vertices,       \* the number of vertices of query_result
    ln_pe,             \* pipeline_executions
    ln_bound,          \* the names bound so far (globals, and Function.local)
    ln_printed,        \* what the SDK-helper cell has printed of the pipelines
    ln_status,         \* "running", "error" or "done"
    ln_error,          \* the exception that stopped the run
    ln_last,           \* the last external call: its site, argument and outcome
    ln_retried,        \* a failed call was issued again right away
    ln_alt,            \* <<failed call, call issued in its place>>
    ln_delays,         \* the calls, with their outcome, after which the code slept
    ln_exists,         \* the resources of the account this run created
    ln_assoc,          \* the pairs <<trial, trial component>> the service associates
    ln_deleted,        \* the resources deleted so far, in order
    \* ---- display_predictions(predictions)
    predictions,       \* the label of each pixel, row after row
    dp_pc,             \* the statement of display_predictions that runs next
    npimg,             \* np.array(predictions)
    mask,              \* the palette index of each pixel of the image
    shown              \* the colour plt.imshow renders each pixel in

mfVars == <<model_list, marker, mf_pc, mf_i, loop_models, all_versions, eqa_models>>

nbVars ==
    <<nb, manifest, cell, stmt, status, error, ns, names_made, endpoints, models,
      files, events, skipped, selected>>

lnVars ==
    <<ln_pc, ln_at, ln_i, ln_j, ln_trials, ln_comps, ln_vertices, ln_pe, ln_bound,
      ln_printed, ln_status, ln_error, ln_last, ln_retried, ln_alt, ln_delays,
      ln_exists, ln_assoc, ln_deleted>>

dpVars == <<predictions, dp_pc, npimg, mask, shown>>

vars == <<mfVars, nbVars, lnVars, dpVars>>

\* what a step of one part leaves alone
NotMf == <<nbVars, lnVars, dpVars>>
NotNb == <<mfVars, lnVars, dpVars>>
NotLn == <<mfVars, nbVars, dpVars>>
NotDp == <<mfVars, nbVars, lnVars>>

(***************************************************************************)
(* The filters run one statement at a time, on a manifest and a marker     *)
(* drawn at the start.                                                     *)
(***************************************************************************)
MfInit ==
    /\ model_list \in SeqsUpTo(ManifestEntries, MaxManifest)
    /\ marker \in Markers
    /\ mf_pc = "loop"
    /\ mf_i = 1
    /\ loop_models = <<>>
    /\ all_versions = <<>>
    /\ eqa_models = <<>>

\* one iteration of `for model in model_list:`
ForLoopStep ==
    /\ mf_pc = "loop"
    /\ mf_i <= Len(model_list)
    /\ loop_models' = LoopBody(loop_models, model_list[mf_i], marker)
    /\ mf_i' = mf_i + 1
    /\ UNCHANGED <<NotMf, model_list, marker, mf_pc, all_versions, eqa_models>>

\* the for loop is exhausted
ForLoopEnd ==
    /\ mf_pc = "loop"
    /\ mf_i > Len(model_list)
    /\ mf_pc' = "comprehension"
    /\ UNCHANGED <<NotMf, model_list, marker, mf_i, loop_models, all_versions, eqa_models>>

\* eqa_models_all_versions, eqa_models = [...], []
ComprehensionStep ==
    /\ mf_pc = "comprehension"
    /\ all_versions' = ListComprehension(model_list, marker)
    /\ eqa_models' = <<>>
    /\ mf_i' = 1
    /\ mf_pc' = "dedup"
    /\ UNCHANGED <<NotMf, model_list, marker, loop_models>>

\* one iteration of the second comprehension
DedupStep ==
    /\ mf_pc = "dedup"
    /\ mf_i <= Len(all_versions)
    /\ eqa_models' = DedupBody(eqa_models, all_versions[mf_i])
    /\ mf_i' = mf_i + 1
    /\ UNCHANGED <<NotMf, model_list, marker, mf_pc, loop_models, all_versions>>

DedupEnd ==
    /\ mf_pc = "dedup"
    /\ mf_i > Len(all_versions)
    /\ mf_pc' = "done"
    /\ UNCHANGED <<NotMf, model_list, marker, mf_i, loop_models, all_versions, eqa_models>>

MfNext ==
    \/ ForLoopStep
    \/ ForLoopEnd
    \/ ComprehensionStep
    \/ DedupStep
    \/ DedupEnd

(***************************************************************************)
(* A notebook is a sequence of cells, a cell a sequence of statements.     *)
(* A statement is kept when it calls outside the kernel, binds a name a    *)
(* later statement reads, or is read by such a statement:                  *)
(*   op     what the statement does                                        *)
(*   tgt    the global name it binds                                       *)
(*   src    the global name it works on                                    *)
(*   reads  the global names it evaluates (a missing one is a NameError)   *)
(*   arg    a literal of the statement                                     *)
(*   line   its line in the notebook file                                  *)
(***************************************************************************)
St(op, tgt, src, reads, arg, line) ==
    [op |-> op, tgt |-> tgt, src |-> src, reads |-> reads, arg |-> arg, line |-> line]

\* `!cmd`: IPython runs the command and never raises on its exit status
Shell(line) == St("shell", "", "", {}, "", line)
\* a call into the SDK or the service whose result the model does not follow
Call(reads, line) == St("call", "", "", reads, "", line)
\* statements that stay inside the kernel
Local(reads, line) == St("local", "", "", reads, "", line)
\* tgt = "<model id literal>"
Const(tgt, id, line) == St("const", tgt, "", {}, id, line)
\* tgt = "<file name literal>"
Str(tgt, s, line) == St("str", tgt, "", {}, s, line)
\* s3.download_file(..., <the file src names>)
Download(src, line) == St("download", "", src, {src}, "", line)
\* download models_manifest.json and json.load it into model_list
LoadManifest(line) == St("manifest", "model_list", "", {}, "", line)
\* tgt = the model ids of model_list that carry the marker, by either form
Filter(tgt, form, mk, line) ==
    St("filter", tgt, "model_list", {"model_list"}, [form |-> form, marker |-> mk], line)
\* tgt = Dropdown(options=src, value=<literal>)
DropdownLit(tgt, src, value, line) ==
    St("dropdown", tgt, src, {src}, [name |-> "", value |-> value], line)
\* tgt = Dropdown(options=src, value=<the global valueName>)
DropdownVar(tgt, src, valueName, line) ==
    St("dropdown", tgt, src, {src, valueName}, [name |-> valueName, value |-> <<>>], line)
\* display(src): the widget is shown and the user may pick an entry
Display(src, line) == St("display", "", src, {src}, "", line)
\* tgt = src.value
Value(tgt, src, line) == St("value", tgt, src, {src}, "", line)
\* tgt = name_from_base(...)
NameFromBase(tgt, reads, line) == St("name_from_base", tgt, "", reads, "", line)
\* tgt = <model or estimator>.deploy(..., endpoint_name=endpoint_name)
Deploy(tgt, reads, line) ==
    St("deploy", tgt, "endpoint_name", reads \cup {"endpoint_name"}, "", line)
\* def tgt(...): a body that reads the global `ref` when it is called
Def(tgt, ref, line) == St("def", tgt, "", {}, ref, line)
\* a prediction through src (a predictor, or a function that finds the
\* endpoint itself), on the file the global `file` names ("" for no file)
Predict(src, reads, file, line) == St("predict", "", src, reads \cup {src}, file, line)
DeleteModel(src, line) == St("delete_model", "", src, {src}, "", line)
DeleteEndpoint(src, line) == St("delete_endpoint", "", src, {src}, "", line)

Cell(stmts) == [optional |-> FALSE, stmts |-> stmts]
OptionalCell(stmts) == [optional |-> TRUE, stmts |-> stmts]

Repeat(s, n) == [i \in 1..n |-> s]

(***************************************************************************)
(* Introduction to JumpStart - Text Embedding                              *)
(***************************************************************************)
\* the sentences of section 5
NumSentences == 7

TextEmbedding ==
    << Cell(<<Shell(71)>>),
       Cell(<<Call({}, 97)>>),
       Cell(<<LoadManifest(124),
              Filter("text_embedding_models", "loop", TcEmbeddingMarker, 131),
              DropdownLit("model_dropdown", "text_embedding_models", TcEmbeddingDefault, 138)>>),
       Cell(<<Display("model_dropdown", 162)>>),
       Cell(<<Value("model_id", "model_dropdown", 173)>>),
       Cell(<<NameFromBase("endpoint_name", {"model_id"}, 202),
              Call({"model_id"}, 207), Call({"model_id"}, 217), Call({"model_id"}, 223),
              Deploy("model_predictor", {}, 241)>>),
       Cell(<<Def("query", "", 269), Def("parse_response", "", 284)>>),
       Cell(<<Predict("model_predictor", {"query"}, "", 315),
              Local({"parse_response"}, 317)>>),
       Cell(Repeat(Predict("model_predictor", {"query"}, "", 394), NumSentences)),
       Cell(<<DeleteModel("model_predictor", 418), DeleteEndpoint("model_predictor", 419)>>) >>

(***************************************************************************)
(* JumpStart - Extractive Question Answering                               *)
(***************************************************************************)
\* [question_context1, question_context2]
NumQuestions == 2

Eqa_SelectModel ==
    OptionalCell(<<LoadManifest(601),
                   Filter("eqa_models", "comprehension", EqaMarker, 608),
                   DropdownVar("dropdown", "eqa_models", "model_id", 614),
                   Display("dropdown", 622)>>)

Eqa_DeployBase ==
    Cell(<<Value("infer_model_id", "dropdown", 665),
           NameFromBase("endpoint_name", {"infer_model_id"}, 667),
           Call({"infer_model_id"}, 672), Call({"infer_model_id"}, 681),
           Call({"infer_model_id"}, 685),
           Deploy("base_model_predictor", {}, 700)>>)

Eqa_QueryBase ==
    Cell(<<Def("query_endpoint", "base_model_predictor", 759),
           Def("parse_response", "", 766)>>
         \o Repeat(Predict("query_endpoint", {}, "", 773), NumQuestions))

Eqa_CleanupBase ==
    Cell(<<DeleteModel("base_model_predictor", 799),
           DeleteEndpoint("base_model_predictor", 800)>>)

Eqa_DeployFinetuned ==
    Cell(<<Call({"model_id"}, 1011), Call({"model_id"}, 1020),
           NameFromBase("endpoint_name", {"model_id"}, 1024),
           Deploy("finetuned_predictor", {"eqa_estimator"}, 1027)>>)

\* section 4.4 without its own `def query_endpoint`
Eqa_QueryFinetuned_NotRedefined ==
    Cell(<<Def("parse_response", "", 1096)>>
         \o Repeat(Predict("query_endpoint", {}, "", 1103), NumQuestions))

Eqa_QueryFinetuned ==
    Cell(<<Def("query_endpoint", "finetuned_predictor", 1089),
           Def("parse_response", "", 1096)>>
         \o Repeat(Predict("query_endpoint", {}, "", 1103), NumQuestions))

Eqa_CleanupFinetuned ==
    Cell(<<DeleteModel("finetuned_predictor", 1132),
           DeleteEndpoint("finetuned_predictor", 1133)>>)

QuestionAnswering ==
    << Cell(<<Shell(529)>>),
       Cell(<<Call({}, 554)>>),
       Cell(<<Const("model_id", EqaDefault, 577)>>),
       Eqa_SelectModel,
       Eqa_DeployBase,
       Cell(<<Local({}, 726)>>),
       Eqa_QueryBase,
       Eqa_CleanupBase,
       Cell(<<Value("model_id", "dropdown", 862),
              Call({"model_id"}, 866), Call({"model_id"}, 875), Call({"model_id"}, 879)>>),
       Cell(<<Call({}, 916)>>),
       Cell(<<Call({"model_id"}, 942)>>),
       Cell(<<Local({"model_id"}, 970), St("local", "eqa_estimator", "", {}, "", 973),
              Call({"eqa_estimator"}, 987)>>),
       Eqa_DeployFinetuned,
       Cell(<<Local({}, 1056)>>),
       Eqa_QueryFinetuned,
       Eqa_CleanupFinetuned >>

(***************************************************************************)
(* Introduction to JumpStart - Instance Segmentation                       *)
(***************************************************************************)
InstanceSegmentation ==
    << Cell(<<Shell(74)>>),
       Cell(<<Call({}, 100)>>),
       Cell(<<LoadManifest(127),
              Filter("is_models", "loop", IsMarker, 134),
              DropdownLit("model_dropdown", "is_models", IsDefault, 143),
              Display("model_dropdown", 150)>>),
       Cell(<<Value("model_id", "model_dropdown", 161)>>),
       Cell(<<NameFromBase("endpoint_name", {"model_id"}, 202),
              Call({"model_id"}, 207), Call({"model_id"}, 217), Call({"model_id"}, 223),
              Deploy("base_model_predictor", {}, 241)>>),
       Cell(<<Str("pedestrian_img", "img_pedestrian.png", 270),
              Download("pedestrian_img", 272)>>),
       Cell(<<Def("query", "", 300), Def("parse_response", "", 316)>>),
       Cell(<<Predict("base_model_predictor", {"query"}, "pedestrian_img", 337),
              Local({"parse_response"}, 338)>>),
       Cell(<<Def("plot_bbox", "", 360)>>),
       Cell(<<Local({"plot_bbox"}, 440)>>),
       Cell(<<DeleteModel("base_model_predictor", 460),
              DeleteEndpoint("base_model_predictor", 461)>>) >>

(***************************************************************************)
(* JumpStart: Tabular Regression using XGBoost and Linear Learner          *)
(***************************************************************************)
Tabular_Cleanup_NoDeleteEndpoint ==
    Cell(<<DeleteModel("predictor", 546)>>)

Tabular_Cleanup ==
    Cell(<<DeleteModel("predictor", 546), DeleteEndpoint("predictor", 547)>>)

TabularRegression ==
    << Cell(<<Shell(71)>>),
       Cell(<<Call({}, 96)>>),
       Cell(<<Const("train_model_id", TabularModelId, 166),
              Call({"train_model_id"}, 170), Call({"train_model_id"}, 179),
              Call({"train_model_id"}, 183)>>),
       Cell(<<Call({}, 218)>>),
       Cell(<<Call({"train_model_id"}, 245)>>),
       Cell(<<Local({"train_model_id"}, 283),
              St("local", "tabular_estimator", "", {}, "", 286),
              Call({"tabular_estimator"}, 300)>>),
       Cell(<<Call({"train_model_id"}, 329), Call({"train_model_id"}, 338),
              NameFromBase("endpoint_name", {"train_model_id"}, 342),
              Deploy("predictor", {"tabular_estimator"}, 345)>>),
       Cell(<<Str("test_data_file_name", "data.csv", 376),
              Download("test_data_file_name", 378)>>),
       Cell(<<Local({"test_data_file_name"}, 415)>>),
       Cell(<<Def("query_endpoint", "endpoint_name", 454),
              Def("parse_resonse", "", 462),
              Predict("query_endpoint", {}, "", 467),
              Local({"parse_resonse"}, 468)>>),
       Cell(<<Local({}, 500)>>),
       Cell(<<Local({}, 516)>>),
       Tabular_Cleanup >>

(***************************************************************************)
(* Introduction to JumpStart - Semantic Segmentation                       *)
(***************************************************************************)
SemanticSegmentation ==
    << Cell(<<Shell(82)>>),
       Cell(<<Call({}, 108)>>),
       Cell(<<LoadManifest(135),
              Filter("semseg_models", "loop", SemsegMarker, 142),
              DropdownLit("model_dropdown", "semseg_models", SemsegDefault, 151),
              Display("model_dropdown", 158)>>),
       Cell(<<Value("model_id", "model_dropdown", 169)>>),
       Cell(<<NameFromBase("endpoint_name", {"model_id"}, 210),
              Call({"model_id"}, 215), Call({"model_id"}, 225), Call({"model_id"}, 231),
              Deploy("base_model_predictor", {}, 249)>>),
       Cell(<<Str("pedestrian_img", "img_pedestrian.png", 278),
              Download("pedestrian_img", 280)>>),
       Cell(<<Def("query", "", 308), Def("parse_response", "", 324)>>),
       Cell(<<Predict("base_model_predictor", {"query"}, "pedestrian_img", 337),
              Local({"parse_response"}, 339)>>),
       Cell(<<Def("getvocpalette", "", 368), Def("display_predictions", "", 388)>>),
       Cell(<<Local({"display_predictions"}, 407)>>),
       Cell(<<DeleteModel("base_model_predictor", 426),
              DeleteEndpoint("base_model_predictor", 427)>>),
       Cell(<<Call({"model_id"}, 500), Call({"model_id"}, 510), Call({"model_id"}, 514)>>),
       Cell(<<Call({}, 549)>>),
       Cell(<<Call({"model_id"}, 576)>>),
       Cell(<<Local({"model_id"}, 612),
              St("local", "semseg_estimator", "", {}, "", 615)>>),
       Cell(<<Call({"semseg_estimator"}, 637)>>),
       Cell(<<Call({"model_id"}, 664), Call({"model_id"}, 673),
              NameFromBase("endpoint_name", {"model_id"}, 677),
              Deploy("finetuned_predictor", {"semseg_estimator"}, 680)>>),
       Cell(<<Str("pedestrian_image_file_name", "FudanPed00001.png", 710),
              Download("pedestrian_image_file_name", 712)>>),
       Cell(<<Predict("finetuned_predictor", {"query"}, "pedestrian_img", 737),
              Local({"parse_response", "display_predictions"}, 738)>>),
       Cell(<<DeleteModel("finetuned_predictor", 761),
              DeleteEndpoint("finetuned_predictor", 762)>>) >>

(***************************************************************************)
(* Introduction to JumpStart - Image Embedding                             *)
(***************************************************************************)
\* [cat_jpg, dog_jpg]
NumImages == 2

ImageEmbedding ==
    << Cell(<<Shell(876)>>),
       Cell(<<Call({}, 902)>>),
       Cell(<<LoadManifest(929),
              Filter("image_embedding_models", "loop", IcEmbeddingMarker, 936),
              DropdownLit("model_dropdown", "image_embedding_models", IcEmbeddingDefault, 943)>>),
       Cell(<<Display("model_dropdown", 967)>>),
       Cell(<<Value("model_id", "model_dropdown", 978)>>),
       Cell(<<NameFromBase("endpoint_name", {"model_id"}, 1007),
              Call({"model_id"}, 1012), Call({"model_id"}, 1022), Call({"model_id"}, 1028),
              Deploy("model_predictor", {}, 1046)>>),
       Cell(<<Str("cat_jpg", "cat.jpg", 1084), Str("dog_jpg", "dog.jpg", 1084),
              Download("cat_jpg", 1081), Download("dog_jpg", 1081)>>),
       Cell(<<Def("query", "", 1108), Def("parse_response", "", 1124)>>),
       Cell(<<Predict("model_predictor", {"query"}, "cat_jpg", 1142),
              Predict("model_predictor", {"query"}, "dog_jpg", 1142)>>),
       Cell(<<DeleteModel("model_predictor", 1170), DeleteEndpoint("model_predictor", 1171)>>) >>

Notebooks ==
    {"text_embedding", "question_answering", "instance_segmentation",
     "tabular_regression", "semantic_segmentation", "image_embedding"}

Program(n) ==
    CASE n = "text_embedding" -> TextEmbedding
      [] n = "question_answering" -> QuestionAnswering
      [] n = "instance_segmentation" -> InstanceSegmentation
      [] n = "tabular_regression" -> TabularRegression
      [] n = "semantic_segmentation" -> SemanticSegmentation
      [] n = "image_embedding" -> ImageEmbedding

(***************************************************************************)
(* The kernel's namespace.  A global is unbound until a statement binds    *)
(* it; what it is bound to is one of                                       *)
(*   "id"        a model id                  (id)                          *)
(*   "str"       a file name                 (ref)                         *)
(*   "list"      a list                      (opts)                        *)
(*   "dropdown"  a Dropdown widget           (id: its value, opts)         *)
(*   "name"      an endpoint name            (ep)                          *)
(*   "predictor" a Predictor of an endpoint  (ep)                          *)
(*   "function"  a function                  (ref: the global it reads)    *)
(*   "object"    anything else                                             *)
(***************************************************************************)
Names ==
    {"model_list", "text_embedding_models", "eqa_models", "is_models", "semseg_models",
     "image_embedding_models", "model_dropdown", "dropdown", "model_id",
     "infer_model_id", "train_model_id", "endpoint_name", "model_predictor",
     "base_model_predictor", "finetuned_predictor", "predictor", "eqa_estimator",
     "tabular_estimator", "semseg_estimator", "query", "query_endpoint",
     "parse_response", "parse_resonse", "plot_bbox", "getvocpalette",
     "display_predictions", "pedestrian_img", "pedestrian_image_file_name",
     "test_data_file_name", "cat_jpg", "dog_jpg"}

Val(k, id, opts, ep, ref) == [k |-> k, id |-> id, opts |-> opts, ep |-> ep, ref |-> ref]

Undef == Val("undef", <<>>, <<>>, 0, "")

\* the endpoint names one run can produce: name_from_base is called for an
\* endpoint at most twice in a notebook (sections 3.1 and 4.4)
MaxEndpoints == 2

\* manifests a notebook run may find in the bucket
MaxManifestRun == 2

Cur == Program(nb)[cell].stmts[stmt]

Running == status = "running"

ReadsBound == \A n \in Cur.reads : ns[n].k # "undef"

\* the statement after the current one; the run is done after the last cell
Advance ==
    LET last == stmt >= Len(Program(nb)[cell].stmts)
        c == IF last THEN cell + 1 ELSE cell
    IN  /\ cell' = c
        /\ stmt' = IF last THEN 1 ELSE stmt + 1
        /\ status' = IF c > Len(Program(nb)) THEN "done" ELSE "running"
        /\ error' = error

\* an exception nothing catches: the cell stops and so does the run
Raise(e) ==
    /\ status' = "error"
    /\ error' = e
    /\ UNCHANGED <<cell, stmt>>

Event(op, ep, file) == [op |-> op, ep |-> ep, file |-> file]

NbInit ==
    /\ nb \in Notebooks
    /\ manifest \in SeqsUpTo(ManifestEntries, MaxManifestRun)
    /\ cell = 1
    /\ stmt = 1
    /\ status = "running"
    /\ error = ""
    /\ ns = [n \in Names |-> Undef]
    /\ names_made = 0
    /\ endpoints = [e \in 1..MaxEndpoints |-> "none"]
    /\ models = [e \in 1..MaxEndpoints |-> "none"]
    /\ files = {}
    /\ events = <<>>
    /\ skipped = {}
    /\ selected = FALSE

\* a statement evaluates a global that no executed statement has bound
RaiseNameError ==
    /\ Running
    /\ ~ReadsBound
    /\ Raise("NameError")
    /\ UNCHANGED <<NotNb, nb, manifest, ns, names_made, endpoints, models, files, events,
                   skipped, selected>>

\* a call whose result the model does not follow either returns or raises
RunCall ==
    /\ Running
    /\ Cur.op = "call"
    /\ ReadsBound
    /\ \/ Advance
       \/ Raise("CallError")
    /\ UNCHANGED <<NotNb, nb, manifest, ns, names_made, endpoints, models, files, events,
                   skipped, selected>>

RunShell ==
    /\ Running
    /\ Cur.op = "shell"
    /\ Advance
    /\ UNCHANGED <<NotNb, nb, manifest, ns, names_made, endpoints, models, files, events,
                   skipped, selected>>

RunLocal ==
    /\ Running
    /\ Cur.op = "local"
    /\ ReadsBound
    /\ ns' = IF Cur.tgt = "" THEN ns
             ELSE [ns EXCEPT ![Cur.tgt] = Val("object", <<>>, <<>>, 0, "")]
    /\ Advance
    /\ UNCHANGED <<NotNb, nb, manifest, names_made, endpoints, models, files, events,
                   skipped, selected>>

RunConst ==
    /\ Running
    /\ Cur.op = "const"
    /\ ns' = [ns EXCEPT ![Cur.tgt] = Val("id", Cur.arg, <<>>, 0, "")]
    /\ Advance
    /\ UNCHANGED <<NotNb, nb, manifest, names_made, endpoints, models, files, events,
                   skipped, selected>>

RunStr ==
    /\ Running
    /\ Cur.op = "str"
    /\ ns' = [ns EXCEPT ![Cur.tgt] = Val("str", <<>>, <<>>, 0, Cur.arg)]
    /\ Advance
    /\ UNCHANGED <<NotNb, nb, manifest, names_made, endpoints, models, files, events,
                   skipped, selected>>

RunDownload ==
    /\ Running
    /\ Cur.op = "download"
    /\ ReadsBound
    /\ \/ /\ files' = files \cup {ns[Cur.src].ref}
          /\ events' = Append(events, Event("download", 0, ns[Cur.src].ref))
          /\ Advance
       \/ /\ Raise("CallError")
          /\ UNCHANGED <<files, events>>
    /\ UNCHANGED <<NotNb, nb, manifest, ns, names_made, endpoints, models,
                   skipped, selected>>

\* download_file(...models_manifest.json...); model_list = json.load(json_file)
RunLoadManifest ==
    /\ Running
    /\ Cur.op = "manifest"
    /\ \/ /\ files' = files \cup {"models_manifest.json"}
          /\ ns' = [ns EXCEPT ![Cur.tgt] = Val("list", <<>>, manifest, 0, "")]
          /\ Advance
       \/ /\ Raise("CallError")
          /\ UNCHANGED <<files, ns>>
    /\ UNCHANGED <<NotNb, nb, manifest, names_made, endpoints, models, events,
                   skipped, selected>>

RunFilter ==
    /\ Running
    /\ Cur.op = "filter"
    /\ ReadsBound
    /\ LET l == ns[Cur.src].opts
           r == IF Cur.arg.form = "loop"
                THEN FilterLoop(l, Cur.arg.marker)
                ELSE FilterComprehension(l, Cur.arg.marker)
       IN  ns' = [ns EXCEPT ![Cur.tgt] = Val("list", <<>>, r, 0, "")]
    /\ Advance
    /\ UNCHANGED <<NotNb, nb, manifest, names_made, endpoints, models, files, events,
                   skipped, selected>>

\* Dropdown(options=..., value=...): the widget refuses a value that is not
\* one of its options
RunDropdown ==
    /\ Running
    /\ Cur.op = "dropdown"
    /\ ReadsBound
    /\ LET options == ns[Cur.src].opts
           value == IF Cur.arg.name = "" THEN Cur.arg.value ELSE ns[Cur.arg.name].id
       IN  \/ /\ InList(value, options)
              /\ ns' = [ns EXCEPT ![Cur.tgt] = Val("dropdown", value, options, 0, "")]
              /\ Advance
           \/ /\ ~InList(value, options)
              /\ Raise("TraitError")
              /\ UNCHANGED ns
    /\ UNCHANGED <<NotNb, nb, manifest, names_made, endpoints, models, files, events,
                   skipped, selected>>

\* the widget is on screen: the user leaves it alone or picks an entry
RunDisplay ==
    /\ Running
    /\ Cur.op = "display"
    /\ ReadsBound
    /\ \/ UNCHANGED <<ns, selected>>
       \/ \E i \in 1..Len(ns[Cur.src].opts) :
            /\ ns' = [ns EXCEPT ![Cur.src].id = ns[Cur.src].opts[i]]
            /\ selected' = TRUE
    /\ Advance
    /\ UNCHANGED <<NotNb, nb, manifest, names_made, endpoints, models, files, events, skipped>>

RunValue ==
    /\ Running
    /\ Cur.op = "value"
    /\ ReadsBound
    /\ ns' = [ns EXCEPT ![Cur.tgt] = Val("id", ns[Cur.src].id, <<>>, 0, "")]
    /\ Advance
    /\ UNCHANGED <<NotNb, nb, manifest, names_made, endpoints, models, files, events,
                   skipped, selected>>

\* name_from_base appends a timestamp: a name no endpoint has yet
RunNameFromBase ==
    /\ Running
    /\ Cur.op = "name_from_base"
    /\ ReadsBound
    /\ names_made < MaxEndpoints
    /\ names_made' = names_made + 1
    /\ ns' = [ns EXCEPT ![Cur.tgt] = Val("name", <<>>, <<>>, names_made + 1, "")]
    /\ Advance
    /\ UNCHANGED <<NotNb, nb, manifest, endpoints, models, files, events, skipped, selected>>

RunDef ==
    /\ Running
    /\ Cur.op = "def"
    /\ ns' = [ns EXCEPT ![Cur.tgt] = Val("function", <<>>, <<>>, 0, Cur.arg)]
    /\ Advance
    /\ UNCHANGED <<NotNb, nb, manifest, names_made, endpoints, models, files, events,
                   skipped, selected>>

\* <model or estimator>.deploy(...): returns a Predictor of the new endpoint
\* once it is in service, or raises
RunDeploy ==
    /\ Running
    /\ Cur.op = "deploy"
    /\ ReadsBound
    /\ LET e == ns[Cur.src].ep
       IN  \/ /\ endpoints[e] = "none"
              /\ endpoints' = [endpoints EXCEPT ![e] = "InService"]
              /\ models' = [models EXCEPT ![e] = "Created"]
              /\ ns' = [ns EXCEPT ![Cur.tgt] = Val("predictor", <<>>, <<>>, e, "")]
              /\ events' = Append(events, Event("deploy", e, ""))
              /\ Advance
           \/ /\ Raise("CallError")
              /\ UNCHANGED <<endpoints, models, ns, events>>
    /\ UNCHANGED <<NotNb, nb, manifest, names_made, files, skipped, selected>>

\* the value through which a prediction finds its endpoint: the predictor
\* passed to query(), or the global the body of query_endpoint() reads
Target(s) == IF ns[s.src].k = "function" THEN ns[ns[s.src].ref] ELSE ns[s.src]

\* the file query() opens before it calls predict ("" when it opens none)
InputFile(s) == IF s.arg = "" THEN "" ELSE ns[s.arg].ref

\* query(...) / query_endpoint(...): open the input, then predict or
\* invoke_endpoint on the endpoint
RunPredict ==
    /\ Running
    /\ Cur.op = "predict"
    /\ ReadsBound
    /\ \/ /\ Cur.arg # ""
          /\ ns[Cur.arg].k = "undef"
          /\ Raise("NameError")
          /\ UNCHANGED events
       \/ /\ Cur.arg # "" => ns[Cur.arg].k # "undef"
          /\ Target(Cur).k = "undef"
          /\ Raise("NameError")
          /\ UNCHANGED events
       \/ /\ Cur.arg # ""
          /\ ns[Cur.arg].k # "undef"
          /\ Target(Cur).k # "undef"
          /\ InputFile(Cur) \notin files
          /\ Raise("FileNotFoundError")
          /\ UNCHANGED events
       \/ /\ Cur.arg # "" => (ns[Cur.arg].k # "undef" /\ InputFile(Cur) \in files)
          /\ Target(Cur).k # "undef"
          /\ events' = Append(events, Event("predict", Target(Cur).ep, InputFile(Cur)))
          /\ \/ /\ endpoints[Target(Cur).ep] = "InService"
                /\ Advance
             \/ Raise("CallError")
    /\ UNCHANGED <<NotNb, nb, manifest, ns, names_made, endpoints, models, files,
                   skipped, selected>>

\* predictor.delete_model(): deletes the model behind the endpoint
RunDeleteModel ==
    /\ Running
    /\ Cur.op = "delete_model"
    /\ ReadsBound
    /\ LET e == ns[Cur.src].ep
       IN  /\ events' = Append(events, Event("delete_model", e, ""))
           /\ \/ /\ endpoints[e] = "InService"
                 /\ models[e] = "Created"
                 /\ models' = [models EXCEPT ![e] = "Deleted"]
                 /\ Advance
              \/ /\ Raise("CallError")
                 /\ UNCHANGED models
    /\ UNCHANGED <<NotNb, nb, manifest, ns, names_made, endpoints, files, skipped, selected>>

\* predictor.delete_endpoint(): deletes the endpoint and its configuration
RunDeleteEndpoint ==
    /\ Running
    /\ Cur.op = "delete_endpoint"
    /\ ReadsBound
    /\ LET e == ns[Cur.src].ep
       IN  /\ events' = Append(events, Event("delete_endpoint", e, ""))
           /\ \/ /\ endpoints[e] = "InService"
                 /\ endpoints' = [endpoints EXCEPT ![e] = "Deleted"]
                 /\ Advance
              \/ /\ Raise("CallError")
                 /\ UNCHANGED endpoints
    /\ UNCHANGED <<NotNb, nb, manifest, ns, names_made, models, files, skipped, selected>>

\* the user leaves out a cell the notebook marks [Optional]
SkipOptionalCell ==
    /\ Running
    /\ stmt = 1
    /\ Program(nb)[cell].optional
    /\ skipped' = skipped \cup {cell}
    /\ cell' = cell + 1
    /\ status' = IF cell + 1 > Len(Program(nb)) THEN "done" ELSE "running"
    /\ UNCHANGED <<NotNb, nb, manifest, stmt, error, ns, names_made, endpoints, models,
                   files, events, selected>>

NbNext ==
    \/ RaiseNameError
    \/ RunCall
    \/ RunShell
    \/ RunLocal
    \/ RunConst
    \/ RunStr
    \/ RunDownload
    \/ RunLoadManifest
    \/ RunFilter
    \/ RunDropdown
    \/ RunDisplay
    \/ RunValue
    \/ RunNameFromBase
    \/ RunDef
    \/ RunDeploy
    \/ RunPredict
    \/ RunDeleteModel
    \/ RunDeleteEndpoint
    \/ SkipOptionalCell

(***************************************************************************)
(* The lineage notebook.  A statement is a record: what kind of step it    *)
(* is, the call it makes, the line of the notebook it stands on, and the   *)
(* resources the call creates or deletes when it succeeds, and the client  *)
(* a call of the SageMaker API goes through ("none": the statement calls   *)
(* no SageMaker API).                                                      *)
(***************************************************************************)
LnSt(kind, site, line) ==
    [kind |-> kind, site |-> site, line |-> line, creates |-> {}, deletes |-> <<>>,
     binds |-> {}, convert |-> FALSE, guarded |-> FALSE, client |-> "none"]

\* sm_client = boto3.client("sagemaker", config=config), with
\* config = Config(retries={"max_attempts": 50, "mode": "adaptive"}), and the
\* sagemaker.Session built on it
ConfiguredClients == {"sm_client", "sagemaker_session"}
\* a call given no client and no session: the SDK builds a client of its own,
\* with the retry settings of the installation
DefaultClient == "default"

\* the statement, its SageMaker calls going through `client`
Via(client, st) == [st EXCEPT !.client = client]

\* `! cmd`: IPython runs the command and goes on whatever its exit status
LnShellSt(site, line) == LnSt("shell", site, line)
\* a statement that calls nothing outside the kernel
LnLocalSt(site, line) == LnSt("local", site, line)
\* a call of the SDK: it raises when the service or the network fails
LnCallSt(site, line) == LnSt("call", site, line)
LnCreateSt(site, line, rs) == [LnSt("call", site, line) EXCEPT !.creates = rs]
LnDeleteSt(site, line, r) == [LnSt("call", site, line) EXCEPT !.deletes = <<r>>]
\* an assignment of names the later cells read
LnBindSt(names, line) == [LnSt("local", "assignment", line) EXCEPT !.binds = names]
\* LineageQuery(...).query(...) followed by `for vertex in query_result.vertices:`
LnQuerySt(line, convert, guarded) ==
    [LnSt("query", "LineageQuery.query", line) EXCEPT !.convert = convert, !.guarded = guarded]

\* WHEELS of install_boto_wheels, and the archive of install_sm_py_sdk
WHEELS == <<"botocore.tar.gz", "boto3.tar.gz", "awscli.tar.gz">>
pySDK_name == "sagemaker.tar.gz"
\* the packages _install_wheel prints the version of
VersionPackages == <<"botocore", "sagemaker", "boto3", "awscli">>

Lineage_Install ==
    <<LnShellSt("pip install sagemaker botocore boto3 awscli --upgrade", 567),
      LnSt("install_boto_wheels", "install_boto_wheels", 638),
      LnSt("install_sm_py_sdk", "install_sm_py_sdk", 639),
      LnShellSt("pip install sagemaker-experiments pyvis", 649)>>

\* default_bucket asks S3 and STS through boto_session; get_execution_role()
\* builds a session of its own to look the caller's role up: neither is
\* counted as a call of the SageMaker API here
Lineage_Setup ==
    <<LnLocalSt("boto3.Session, Config, boto3.client, sagemaker.Session", 677),
      LnCallSt("default_bucket", 687),
      LnCallSt("get_execution_role", 688),
      LnLocalSt("unique_id", 707),
      LnBindSt({"experiment_name"}, 729),
      Via("sm_client", LnCreateSt("Experiment.create", 730, {"experiment"})),
      Via("sm_client", LnCreateSt("Trial.create", 732, {"trial"}))>>

Lineage_Data ==
    <<LnLocalSt("os.makedirs", 769),
      LnCallSt("download_file test.csv", 777),
      LnCallSt("download_file train.csv", 782),
      LnCallSt("download_file validation.csv", 787),
      LnCreateSt("upload_file train.csv", 794, {"experiments-demo/train.csv"}),
      LnCreateSt("upload_file validation.csv", 797, {"experiments-demo/validation.csv"}),
      LnLocalSt("training_data, validation_data", 801)>>

Lineage_Train ==
    <<LnLocalSt("image_uris.retrieve, Estimator, set_hyperparameters", 830),
      Via("sagemaker_session", LnCreateSt("fit", 868, {"trial_component", "xgb_model/model.tar.gz"})),
      Via("sm_client", LnCreateSt("create_model_package_group", 905, {"model_package_group"})),
      Via("sagemaker_session", LnCreateSt("register", 926, {"model_package"})),
      Via("sagemaker_session", LnCreateSt("deploy", 957, {"model", "endpoint_config", "endpoint"})),
      Via("sm_client", LnCallSt("describe_endpoint", 972))>>

\* the mutant of the query cells: the loop of the BOTH query at 1259 inside a
\* try block as well
Lineage_Queries_AllGuarded ==
    <<Via(DefaultClient, LnCallSt("Context.list", 1038)),
      Via(DefaultClient, LnCallSt("EndpointContext.load", 1040)),
      Via("sagemaker_session", LnQuerySt(1067, TRUE, FALSE)),
      Via("sagemaker_session", LnQuerySt(1106, TRUE, FALSE)),
      Via("sagemaker_session", LnQuerySt(1148, FALSE, FALSE)),
      Via(DefaultClient, LnCallSt("Artifact.list", 1184)),
      Via(DefaultClient, LnCallSt("ModelArtifact.load", 1185)),
      Via("sagemaker_session", LnQuerySt(1200, TRUE, FALSE)),
      Via("sagemaker_session", LnQuerySt(1212, TRUE, FALSE)),
      Via("sagemaker_session", LnQuerySt(1250, TRUE, TRUE)),
      Via("sagemaker_session", LnQuerySt(1297, TRUE, TRUE)),
      Via("sagemaker_session", LnQuerySt(1317, TRUE, TRUE))>>

Lineage_Queries ==
    <<Via(DefaultClient, LnCallSt("Context.list", 1038)),
      Via(DefaultClient, LnCallSt("EndpointContext.load", 1040)),
      Via("sagemaker_session", LnQuerySt(1067, TRUE, FALSE)),
      Via("sagemaker_session", LnQuerySt(1106, TRUE, FALSE)),
      Via("sagemaker_session", LnQuerySt(1148, FALSE, FALSE)),
      Via(DefaultClient, LnCallSt("Artifact.list", 1184)),
      Via(DefaultClient, LnCallSt("ModelArtifact.load", 1185)),
      Via("sagemaker_session", LnQuerySt(1200, TRUE, FALSE)),
      Via("sagemaker_session", LnQuerySt(1212, TRUE, FALSE)),
      Via("sagemaker_session", LnQuerySt(1250, TRUE, FALSE)),
      Via("sagemaker_session", LnQuerySt(1297, TRUE, TRUE)),
      Via("sagemaker_session", LnQuerySt(1317, TRUE, TRUE))>>

Lineage_Helpers ==
    <<Via(DefaultClient, LnCallSt("endpoint_context.dataset_artifacts", 1357)),
      Via(DefaultClient, LnCallSt("endpoint_context.training_job_arns", 1363)),
      Via(DefaultClient, LnSt("pipeline", "endpoint_context.pipeline_execution_arn", 1370)),
      Via(DefaultClient, LnCallSt("model_artifact.dataset_artifacts", 1385)),
      Via(DefaultClient, LnCallSt("model_artifact.endpoint_contexts", 1386)),
      Via(DefaultClient, LnCallSt("Artifact.list", 1408)),
      Via(DefaultClient, LnCallSt("DatasetArtifact.load", 1409)),
      Via(DefaultClient, LnCallSt("dataset_artifact.endpoint_contexts", 1412)),
      Via("sm_client", LnCallSt("query_lineage", 1441)),
      LnLocalSt("viz.render", 1445),
      Via("sm_client", LnCallSt("query_lineage", 1456)),
      LnLocalSt("viz.render", 1459)>>

Lineage_Cleanup ==
    <<Via("sm_client", LnDeleteSt("delete_endpoint", 1488, "endpoint")),
      Via("sm_client", LnDeleteSt("delete_model_package", 1491, "model_package")),
      Via("sm_client", LnDeleteSt("delete_model_package_group", 1494, "model_package_group"))>>

Lineage_DeleteExperiment ==
    <<LnLocalSt("def delete_experiment", 1509),
      Via(DefaultClient, LnCallSt("Experiment.load", 1532)),
      Via(DefaultClient, LnSt("delete_experiment", "delete_experiment", 1533))>>

LineageNotebook ==
    Lineage_Install \o Lineage_Setup \o Lineage_Data \o Lineage_Train \o Lineage_Queries
      \o Lineage_Helpers \o Lineage_Cleanup \o Lineage_DeleteExperiment

\* the first statement of the Cleanup section
CleanupStart ==
    Len(Lineage_Install) + Len(Lineage_Setup) + Len(Lineage_Data) + Len(Lineage_Train)
      + Len(Lineage_Queries) + Len(Lineage_Helpers) + 1

\* most vertices a lineage query returns, most pipeline executions of an endpoint
MaxVertices == 2
MaxPipelines == 2

LnCur == LineageNotebook[ln_pc]
LnRunning == ln_status = "running" /\ ln_pc <= Len(LineageNotebook)
LnTop(kind) == LnRunning /\ ln_at = "" /\ LnCur.kind = kind

\* the outcome of an external call, as the kernel sees it.  A call is issued
\* again when the statement that just failed runs once more on the same argument.
LnOutcome(site, arg, ok) ==
    /\ ln_last' = [site |-> site, arg |-> arg, ok |-> ok, line |-> LnCur.line,
                   client |-> LnCur.client]
    /\ ln_retried' = (ln_retried \/ (~ln_last.ok /\ ln_last.site = site /\ ln_last.arg = arg))

\* the statement is over: on to the next one, or the notebook has run through
LnAdvance ==
    /\ ln_pc' = ln_pc + 1
    /\ ln_at' = ""
    /\ ln_status' = IF ln_pc = Len(LineageNotebook) THEN "done" ELSE "running"
    /\ ln_error' = ln_error

\* an exception nothing catches stops the run at this statement
LnRaise(e) ==
    /\ ln_status' = "error"
    /\ ln_error' = e
    /\ UNCHANGED <<ln_pc, ln_at>>

\* stay inside the statement, at place `at`
LnGoto(at) ==
    /\ ln_at' = at
    /\ UNCHANGED <<ln_pc, ln_status, ln_error>>

LnIdle ==
    /\ ln_pc = 0
    /\ ln_at = ""
    /\ ln_i = 0
    /\ ln_j = 0
    /\ ln_trials = <<>>
    /\ ln_comps = <<>>
    /\ ln_vertices = 0
    /\ ln_pe = <<>>
    /\ ln_bound = {}
    /\ ln_printed = <<>>
    /\ ln_status = "idle"
    /\ ln_error = ""
    /\ ln_last = [site |-> "", arg |-> "", ok |-> TRUE, line |-> 0, client |-> "none"]
    /\ ln_retried = FALSE
    /\ ln_alt = {}
    /\ ln_delays = {}
    /\ ln_exists = {}
    /\ ln_assoc = {}
    /\ ln_deleted = <<>>

\* a fresh kernel, about to run the first cell
LnInit ==
    /\ ln_pc = 1
    /\ ln_at = ""
    /\ ln_i = 0
    /\ ln_j = 0
    /\ ln_trials = <<>>
    /\ ln_comps = <<>>
    /\ ln_vertices = 0
    /\ ln_pe = <<>>
    /\ ln_bound = {}
    /\ ln_printed = <<>>
    /\ ln_status = "running"
    /\ ln_error = ""
    /\ ln_last = [site |-> "", arg |-> "", ok |-> TRUE, line |-> 0, client |-> "none"]
    /\ ln_retried = FALSE
    /\ ln_alt = {}
    /\ ln_delays = {}
    /\ ln_exists = {}
    /\ ln_assoc = {}
    /\ ln_deleted = <<>>

(***************************************************************************)
(* The statements of the lineage notebook, one action per step.            *)
(***************************************************************************)
\* `! pip install ...`: the exit status of the command is not looked at
LnShell ==
    /\ LnTop("shell")
    /\ \E ok \in BOOLEAN : LnOutcome(LnCur.site, "", ok)
    /\ LnAdvance
    /\ UNCHANGED <<NotLn, ln_i, ln_j, ln_trials, ln_comps, ln_vertices, ln_pe, ln_bound,
                   ln_printed, ln_alt, ln_delays, ln_exists, ln_assoc, ln_deleted>>

LnLocal ==
    /\ LnTop("local")
    /\ ln_bound' = ln_bound \cup LnCur.binds
    /\ LnAdvance
    /\ UNCHANGED <<NotLn, ln_i, ln_j, ln_trials, ln_comps, ln_vertices, ln_pe,
                   ln_printed, ln_last, ln_retried, ln_alt, ln_delays, ln_exists,
                   ln_assoc, ln_deleted>>

Range(q) == {q[k] : k \in 1..Len(q)}

\* a call of the SDK outside any try block: its exception stops the run
LnCall ==
    /\ LnTop("call")
    /\ \/ /\ LnOutcome(LnCur.site, "", TRUE)
          /\ ln_exists' = (ln_exists \cup LnCur.creates) \ Range(LnCur.deletes)
          \* experiment_config puts the training job's component into the trial
          /\ ln_assoc' = ln_assoc \cup {<<"trial", c>> : c \in LnCur.creates \cap {"trial_component"}}
          /\ ln_deleted' = ln_deleted \o LnCur.deletes
          /\ LnAdvance
       \/ /\ LnOutcome(LnCur.site, "", FALSE)
          /\ LnRaise("CallError")
          /\ UNCHANGED <<ln_exists, ln_assoc, ln_deleted>>
    /\ UNCHANGED <<NotLn, ln_i, ln_j, ln_trials, ln_comps, ln_vertices, ln_pe, ln_bound,
                   ln_printed, ln_alt, ln_delays>>

\* the archive the running install function is at
Wheel == IF LnCur.kind = "install_boto_wheels" THEN WHEELS[ln_i] ELSE pySDK_name

InInstall(at) ==
    /\ LnRunning
    /\ LnCur.kind \in {"install_boto_wheels", "install_sm_py_sdk"}
    /\ ln_at = at

\* install_boto_wheels() / install_sm_py_sdk() is entered
EnterInstall ==
    /\ ln_at = ""
    /\ InInstall("")
    /\ ln_i' = 1
    /\ LnGoto("ls")
    /\ UNCHANGED <<NotLn, ln_j, ln_trials, ln_comps, ln_vertices, ln_pe, ln_bound,
                   ln_printed, ln_last, ln_retried, ln_alt, ln_delays, ln_exists,
                   ln_assoc, ln_deleted>>

\* the body of the loop over WHEELS is over (or install_sm_py_sdk returns)
NextWheel ==
    IF LnCur.kind = "install_boto_wheels" /\ ln_i < Len(WHEELS)
    THEN ln_i' = ln_i + 1 /\ LnGoto("ls")
    ELSE ln_i' = ln_i /\ LnAdvance

\* _download_from_s3: print(execute_cmd(ls_cmd))
DownloadLs ==
    /\ InInstall("ls")
    /\ \E ok \in BOOLEAN : LnOutcome("aws s3 ls", Wheel, ok)
    /\ LnGoto("cp")
    /\ UNCHANGED <<NotLn, ln_i, ln_j, ln_trials, ln_comps, ln_vertices, ln_pe, ln_bound,
                   ln_printed, ln_alt, ln_delays, ln_exists, ln_assoc, ln_deleted>>

\* _download_from_s3: return execute_cmd(cmd), and the caller's `if not exit_code:`
DownloadCp ==
    /\ InInstall("cp")
    /\ \/ /\ LnOutcome("aws s3 cp", Wheel, TRUE)
          /\ ln_i' = ln_i
          /\ LnGoto("pip")
       \/ /\ LnOutcome("aws s3 cp", Wheel, FALSE)
          /\ IF LnCur.kind = "install_boto_wheels"
             THEN NextWheel                      \* "... Ignoring..."
             ELSE ln_i' = ln_i /\ LnGoto("fallback")
    /\ UNCHANGED <<NotLn, ln_j, ln_trials, ln_comps, ln_vertices, ln_pe, ln_bound,
                   ln_printed, ln_alt, ln_delays, ln_exists, ln_assoc, ln_deleted>>

\* _install_wheel: ret = execute_cmd(cmd)
InstallWheelPip ==
    /\ InInstall("pip")
    /\ \E ok \in BOOLEAN : LnOutcome("pip install --no-deps", Wheel, ok)
    /\ LnGoto("version")
    /\ UNCHANGED <<NotLn, ln_i, ln_j, ln_trials, ln_comps, ln_vertices, ln_pe, ln_bound,
                   ln_printed, ln_alt, ln_delays, ln_exists, ln_assoc, ln_deleted>>

\* _install_wheel: _, _version = execute_cmd(python -c ...)
InstallWheelVersion ==
    /\ InInstall("version")
    /\ \E ok \in BOOLEAN : LnOutcome("_install_wheel:603 python -c", Wheel, ok)
    /\ ln_j' = 1
    /\ LnGoto("packages")
    /\ UNCHANGED <<NotLn, ln_i, ln_trials, ln_comps, ln_vertices, ln_pe, ln_bound,
                   ln_printed, ln_alt, ln_delays, ln_exists, ln_assoc, ln_deleted>>

\* _install_wheel: for package in [...]: print(execute_cmd(python -c ...))
InstallWheelPackages ==
    /\ InInstall("packages")
    /\ ln_j <= Len(VersionPackages)
    /\ \E ok \in BOOLEAN : LnOutcome("_install_wheel:606 python -c", VersionPackages[ln_j], ok)
    /\ ln_j' = ln_j + 1
    /\ LnGoto("packages")
    /\ UNCHANGED <<NotLn, ln_i, ln_trials, ln_comps, ln_vertices, ln_pe, ln_bound,
                   ln_printed, ln_alt, ln_delays, ln_exists, ln_assoc, ln_deleted>>

\* _install_wheel: return ret, which no caller reads
InstallWheelReturn ==
    /\ InInstall("packages")
    /\ ln_j > Len(VersionPackages)
    /\ NextWheel
    /\ UNCHANGED <<NotLn, ln_j, ln_trials, ln_comps, ln_vertices, ln_pe, ln_bound,
                   ln_printed, ln_last, ln_retried, ln_alt, ln_delays, ln_exists,
                   ln_assoc, ln_deleted>>

\* install_sm_py_sdk: "... Installing from public PyPi..."
InstallFallback ==
    /\ InInstall("fallback")
    /\ \E ok \in BOOLEAN : LnOutcome("pip install sagemaker", "", ok)
    /\ ln_alt' = ln_alt \cup {<<"aws s3 cp", "pip install sagemaker">>}
    /\ LnAdvance
    /\ UNCHANGED <<NotLn, ln_i, ln_j, ln_trials, ln_comps, ln_vertices, ln_pe, ln_bound,
                   ln_printed, ln_delays, ln_exists, ln_assoc, ln_deleted>>

\* query_result = LineageQuery(sagemaker_session).query(...)
LnQuery ==
    /\ LnTop("query")
    /\ \/ /\ LnOutcome(LnCur.site, "", TRUE)
          /\ ln_vertices' \in 0..MaxVertices
          /\ ln_i' = 1
          /\ LnGoto("vertices")
       \/ /\ LnOutcome(LnCur.site, "", FALSE)
          /\ LnRaise("CallError")
          /\ UNCHANGED <<ln_vertices, ln_i>>
    /\ UNCHANGED <<NotLn, ln_j, ln_trials, ln_comps, ln_pe, ln_bound, ln_printed, ln_alt,
                   ln_delays, ln_exists, ln_assoc, ln_deleted>>

\* one iteration of `for vertex in query_result.vertices:`.  The loop at
\* 1157 reads vertex.arn only; the others load the vertex's lineage object,
\* inside a try block at 1308 and 1325 and outside one elsewhere.
LnVertex ==
    /\ LnRunning
    /\ LnCur.kind = "query"
    /\ ln_at = "vertices"
    /\ ln_i <= ln_vertices
    /\ \/ /\ ~LnCur.convert
          /\ UNCHANGED <<ln_last, ln_retried>>
          /\ ln_i' = ln_i + 1
          /\ LnGoto("vertices")
       \/ /\ LnCur.convert
          /\ LnOutcome("to_lineage_object", ToString(ln_i), TRUE)
          /\ ln_i' = ln_i + 1
          /\ LnGoto("vertices")
       \/ /\ LnCur.convert
          /\ LnOutcome("to_lineage_object", ToString(ln_i), FALSE)
          /\ IF LnCur.guarded
             THEN ln_i' = ln_i + 1 /\ LnGoto("vertices")       \* except: append(vertex.arn)
             ELSE ln_i' = ln_i /\ LnRaise("CallError")
    /\ UNCHANGED <<NotLn, ln_j, ln_trials, ln_comps, ln_vertices, ln_pe, ln_bound,
                   ln_printed, ln_alt, ln_delays, ln_exists, ln_assoc, ln_deleted>>

\* the loop over the vertices is exhausted
LnVerticesEnd ==
    /\ LnRunning
    /\ LnCur.kind = "query"
    /\ ln_at = "vertices"
    /\ ln_i > ln_vertices
    /\ LnAdvance
    /\ UNCHANGED <<NotLn, ln_i, ln_j, ln_trials, ln_comps, ln_vertices, ln_pe, ln_bound,
                   ln_printed, ln_last, ln_retried, ln_alt, ln_delays, ln_exists,
                   ln_assoc, ln_deleted>>

\* the pipeline executions an endpoint may have
PipelineArns == {"execution-1", "execution-2"}

\* pipeline_executions = endpoint_context.pipeline_execution_arn()
PipelineExecutionArn ==
    /\ LnTop("pipeline")
    /\ \/ /\ LnOutcome(LnCur.site, "", TRUE)
          /\ ln_pe' \in SeqsUpTo(PipelineArns, MaxPipelines)
          /\ ln_bound' = ln_bound \cup {"pipeline_executions"}
          /\ LnGoto("if")
       \/ /\ LnOutcome(LnCur.site, "", FALSE)
          /\ LnRaise("CallError")
          /\ UNCHANGED <<ln_pe, ln_bound>>
    /\ UNCHANGED <<NotLn, ln_i, ln_j, ln_trials, ln_comps, ln_vertices, ln_printed, ln_alt,
                   ln_delays, ln_exists, ln_assoc, ln_deleted>>

\* the name the for statement of the SDK-helper cell iterates over
PipelineLoopName == "pipelines_executions"

\* if pipeline_executions: for pipeline in pipelines_executions: print(pipeline)
PipelineLoop ==
    /\ LnRunning
    /\ LnCur.kind = "pipeline"
    /\ ln_at = "if"
    /\ IF ln_pe = <<>>
       THEN LnAdvance /\ UNCHANGED ln_printed
       ELSE IF PipelineLoopName \in ln_bound
            THEN LnAdvance /\ ln_printed' = ln_printed \o ln_pe
            ELSE LnRaise("NameError") /\ UNCHANGED ln_printed
    /\ UNCHANGED <<NotLn, ln_i, ln_j, ln_trials, ln_comps, ln_vertices, ln_pe, ln_bound,
                   ln_last, ln_retried, ln_alt, ln_delays, ln_exists, ln_assoc, ln_deleted>>

(***************************************************************************)
(* delete_experiment(experiment)                                           *)
(***************************************************************************)
InDelete(at) ==
    /\ LnRunning
    /\ LnCur.kind = "delete_experiment"
    /\ ln_at = at

\* most trials of an experiment, most trial components of an account
MaxTrials == 2
MaxComponents == 2

\* the names the service knows trials and trial components by; the first of each
\* is the one the notebook creates
TrialName(k) == IF k = 1 THEN "trial" ELSE "trial-" \o ToString(k)
ComponentName(k) == IF k = 1 THEN "trial_component" ELSE "trial_component-" \o ToString(k)
TrialNames == {TrialName(k) : k \in 1..MaxTrials}
ComponentNames == {ComponentName(k) : k \in 1..MaxComponents}

\* what trial.list_trial_components() returns
ComponentsOf(t) == {p[2] : p \in {q \in ln_assoc : q[1] = t}}

\* the local names of delete_experiment
DeleteExperimentLocals == {"delete_experiment.experiment_name"}

RECURSIVE SeqOf(_)
SeqOf(S) == IF S = {} THEN <<>> ELSE LET x == CHOOSE y \in S : TRUE IN <<x>> \o SeqOf(S \ {x})

\* the call: a new frame, none of its local names bound
EnterDeleteExperiment ==
    /\ ln_at = ""
    /\ InDelete("")
    /\ ln_bound' = ln_bound \ DeleteExperimentLocals
    /\ LnGoto("list_trials")
    /\ UNCHANGED <<NotLn, ln_i, ln_j, ln_trials, ln_comps, ln_vertices, ln_pe, ln_printed,
                   ln_last, ln_retried, ln_alt, ln_delays, ln_exists, ln_assoc, ln_deleted>>

\* for trial_summary in experiment.list_trials():
ListTrials ==
    /\ InDelete("list_trials")
    /\ \/ /\ LnOutcome("list_trials", "", TRUE)
          /\ ln_trials' = SeqOf(ln_exists \cap TrialNames)
          /\ ln_i' = 1
          /\ LnGoto("trial")
       \/ /\ LnOutcome("list_trials", "", FALSE)
          /\ LnRaise("CallError")
          /\ UNCHANGED <<ln_trials, ln_i>>
    /\ UNCHANGED <<NotLn, ln_j, ln_comps, ln_vertices, ln_pe, ln_bound, ln_printed, ln_alt,
                   ln_delays, ln_exists, ln_assoc, ln_deleted>>

\* trial = Trial.load(trial_name=trial_summary.trial_name)
TrialLoad ==
    /\ InDelete("trial")
    /\ ln_i <= Len(ln_trials)
    /\ \/ LnOutcome("Trial.load", ln_trials[ln_i], TRUE) /\ LnGoto("list_trial_components")
       \/ LnOutcome("Trial.load", ln_trials[ln_i], FALSE) /\ LnRaise("CallError")
    /\ UNCHANGED <<NotLn, ln_i, ln_j, ln_trials, ln_comps, ln_vertices, ln_pe, ln_bound,
                   ln_printed, ln_alt, ln_delays, ln_exists, ln_assoc, ln_deleted>>

\* for trial_component_summary in trial.list_trial_components():
ListTrialComponents ==
    /\ InDelete("list_trial_components")
    /\ \/ /\ LnOutcome("list_trial_components", ln_trials[ln_i], TRUE)
          /\ ln_comps' = SeqOf(ComponentsOf(ln_trials[ln_i]))
          /\ ln_j' = 1
          /\ LnGoto("component")
       \/ /\ LnOutcome("list_trial_components", ln_trials[ln_i], FALSE)
          /\ LnRaise("CallError")
          /\ UNCHANGED <<ln_comps, ln_j>>
    /\ UNCHANGED <<NotLn, ln_i, ln_trials, ln_vertices, ln_pe, ln_bound, ln_printed, ln_alt,
                   ln_delays, ln_exists, ln_assoc, ln_deleted>>

\* tc = TrialComponent.load(trial_component_name=...)
TrialComponentLoad ==
    /\ InDelete("component")
    /\ ln_j <= Len(ln_comps)
    /\ \/ LnOutcome("TrialComponent.load", ln_comps[ln_j], TRUE) /\ LnGoto("remove")
       \/ LnOutcome("TrialComponent.load", ln_comps[ln_j], FALSE) /\ LnRaise("CallError")
    /\ UNCHANGED <<NotLn, ln_i, ln_j, ln_trials, ln_comps, ln_vertices, ln_pe, ln_bound,
                   ln_printed, ln_alt, ln_delays, ln_exists, ln_assoc, ln_deleted>>

\* the mutant of the inner loop: the component is deleted without being taken
\* out of the trial first
RemoveTrialComponent_NotCalled ==
    /\ InDelete("remove")
    /\ LnGoto("tc.delete")
    /\ UNCHANGED <<NotLn, ln_i, ln_j, ln_trials, ln_comps, ln_vertices, ln_pe, ln_bound,
                   ln_printed, ln_last, ln_retried, ln_alt, ln_delays, ln_exists,
                   ln_assoc, ln_deleted>>

\* trial.remove_trial_component(tc)
RemoveTrialComponent ==
    /\ InDelete("remove")
    /\ \/ /\ LnOutcome("remove_trial_component", ln_comps[ln_j], TRUE)
          /\ ln_assoc' = ln_assoc \ {<<ln_trials[ln_i], ln_comps[ln_j]>>}
          /\ LnGoto("tc.delete")
       \/ /\ LnOutcome("remove_trial_component", ln_comps[ln_j], FALSE)
          /\ LnRaise("CallError")
          /\ UNCHANGED ln_assoc
    /\ UNCHANGED <<NotLn, ln_i, ln_j, ln_trials, ln_comps, ln_vertices, ln_pe, ln_bound,
                   ln_printed, ln_alt, ln_delays, ln_exists, ln_deleted>>

\* the mutant of the try block: a tc.delete() that fails is tried again
TrialComponentDelete_Retry ==
    /\ InDelete("tc.delete")
    /\ \/ /\ LnOutcome("tc.delete", ln_comps[ln_j], TRUE)
          /\ ln_exists' = ln_exists \ {ln_comps[ln_j]}
          /\ ln_deleted' = Append(ln_deleted, ln_comps[ln_j])
          /\ ln_j' = ln_j
          /\ LnGoto("sleep")
       \/ /\ LnOutcome("tc.delete", ln_comps[ln_j], FALSE)
          /\ ln_j' = ln_j
          /\ LnGoto("tc.delete")
          /\ UNCHANGED <<ln_exists, ln_deleted>>
    /\ UNCHANGED <<NotLn, ln_i, ln_trials, ln_comps, ln_vertices, ln_pe, ln_bound,
                   ln_printed, ln_alt, ln_delays, ln_assoc>>

\* try: tc.delete()  except: continue
TrialComponentDelete ==
    /\ InDelete("tc.delete")
    /\ \/ /\ LnOutcome("tc.delete", ln_comps[ln_j], TRUE)
          /\ ln_exists' = ln_exists \ {ln_comps[ln_j]}
          /\ ln_deleted' = Append(ln_deleted, ln_comps[ln_j])
          /\ ln_j' = ln_j
          /\ LnGoto("sleep")
       \/ /\ LnOutcome("tc.delete", ln_comps[ln_j], FALSE)
          /\ ln_j' = ln_j + 1
          /\ LnGoto("component")
          /\ UNCHANGED <<ln_exists, ln_deleted>>
    /\ UNCHANGED <<NotLn, ln_i, ln_trials, ln_comps, ln_vertices, ln_pe, ln_bound,
                   ln_printed, ln_alt, ln_delays, ln_assoc>>

\* time.sleep(0.5), "to prevent throttling"
Sleep ==
    /\ InDelete("sleep")
    /\ ln_delays' = ln_delays \cup {ln_last}
    /\ ln_j' = ln_j + 1
    /\ LnGoto("component")
    /\ UNCHANGED <<NotLn, ln_i, ln_trials, ln_comps, ln_vertices, ln_pe, ln_bound,
                   ln_printed, ln_last, ln_retried, ln_alt, ln_exists, ln_assoc,
                   ln_deleted>>

\* trial.delete(); experiment_name = experiment.experiment_name
TrialDelete ==
    /\ InDelete("component")
    /\ ln_j > Len(ln_comps)
    /\ \/ /\ LnOutcome("trial.delete", ln_trials[ln_i], TRUE)
          /\ ln_exists' = ln_exists \ {ln_trials[ln_i]}
          /\ ln_deleted' = Append(ln_deleted, ln_trials[ln_i])
          /\ ln_bound' = ln_bound \cup {"delete_experiment.experiment_name"}
          /\ ln_i' = ln_i + 1
          /\ LnGoto("trial")
       \/ /\ LnOutcome("trial.delete", ln_trials[ln_i], FALSE)
          /\ LnRaise("CallError")
          /\ UNCHANGED <<ln_exists, ln_deleted, ln_bound, ln_i>>
    /\ UNCHANGED <<NotLn, ln_j, ln_trials, ln_comps, ln_vertices, ln_pe, ln_printed, ln_alt,
                   ln_delays, ln_assoc>>

\* experiment.delete(), after the loop over the trials
ExperimentDelete ==
    /\ InDelete("trial")
    /\ ln_i > Len(ln_trials)
    /\ \/ /\ LnOutcome("experiment.delete", "", TRUE)
          /\ ln_exists' = ln_exists \ {"experiment"}
          /\ ln_deleted' = Append(ln_deleted, "experiment")
          /\ LnGoto("print")
       \/ /\ LnOutcome("experiment.delete", "", FALSE)
          /\ LnRaise("CallError")
          /\ UNCHANGED <<ln_exists, ln_deleted>>
    /\ UNCHANGED <<NotLn, ln_i, ln_j, ln_trials, ln_comps, ln_vertices, ln_pe, ln_bound,
                   ln_printed, ln_alt, ln_delays, ln_assoc>>

\* print(f"\nExperiment {experiment_name} deleted")
PrintDeleted ==
    /\ InDelete("print")
    /\ IF "delete_experiment.experiment_name" \in ln_bound
       THEN LnAdvance
       ELSE LnRaise("UnboundLocalError")
    /\ UNCHANGED <<NotLn, ln_i, ln_j, ln_trials, ln_comps, ln_vertices, ln_pe, ln_bound,
                   ln_printed, ln_last, ln_retried, ln_alt, ln_delays, ln_exists,
                   ln_assoc, ln_deleted>>

\* delete_experiment called on an experiment of the account: any number of trials,
\* each with any of the trial components, a component possibly in several trials
DeleteExperimentInit ==
    /\ ln_pc = Len(LineageNotebook)
    /\ ln_at = ""
    /\ ln_i = 0
    /\ ln_j = 0
    /\ ln_trials = <<>>
    /\ ln_comps = <<>>
    /\ ln_vertices = 0
    /\ ln_pe = <<>>
    /\ ln_bound \in {{"experiment"}, {"experiment", "experiment_name"}}
    /\ ln_printed = <<>>
    /\ ln_status = "running"
    /\ ln_error = ""
    /\ ln_last = [site |-> "Experiment.load", arg |-> "", ok |-> TRUE, line |-> 1532,
                  client |-> DefaultClient]
    /\ ln_retried = FALSE
    /\ ln_alt = {}
    /\ ln_delays = {}
    /\ \E n \in 0..MaxTrials :
          /\ ln_assoc \in SUBSET ({TrialName(k) : k \in 1..n} \X ComponentNames)
          /\ ln_exists = {"experiment"} \cup {TrialName(k) : k \in 1..n}
                            \cup {p[2] : p \in ln_assoc}
    /\ ln_deleted = <<>>

DeleteExperimentNext ==
    \/ EnterDeleteExperiment
    \/ ListTrials
    \/ TrialLoad
    \/ ListTrialComponents
    \/ TrialComponentLoad
    \/ RemoveTrialComponent
    \/ TrialComponentDelete
    \/ Sleep
    \/ TrialDelete
    \/ ExperimentDelete
    \/ PrintDeleted

LnNext ==
    \/ LnShell
    \/ LnLocal
    \/ LnCall
    \/ EnterInstall
    \/ DownloadLs
    \/ DownloadCp
    \/ InstallWheelPip
    \/ InstallWheelVersion
    \/ InstallWheelPackages
    \/ InstallWheelReturn
    \/ InstallFallback
    \/ LnQuery
    \/ LnVertex
    \/ LnVerticesEnd
    \/ PipelineExecutionArn
    \/ PipelineLoop
    \/ EnterDeleteExperiment
    \/ ListTrials
    \/ TrialLoad
    \/ ListTrialComponents
    \/ TrialComponentLoad
    \/ RemoveTrialComponent
    \/ TrialComponentDelete
    \/ Sleep
    \/ TrialDelete
    \/ ExperimentDelete
    \/ PrintDeleted

(***************************************************************************)
(* The semantic-segmentation notebook, section 3.4: getvocpalette and      *)
(* display_predictions.  The prediction map is followed pixel by pixel;    *)
(* every statement of display_predictions works on each pixel by itself.   *)
(***************************************************************************)
\* most pixels of a prediction map
MaxPixels == 3

\* the labels a pixel may carry: the ends of -1..255 and, in between, labels
\* that take one, two and three turns of the while loop of getvocpalette
Labels == {-1, 0, 1, 7, 8, 63, 64, 254, 255}

\* x | (bit << p), for bit in {0, 1}
OrShifted(x, bit, p) ==
    IF bit = 1 /\ (x \div (2 ^ p)) % 2 = 0 THEN x + 2 ^ p ELSE x

\* (lab >> k) & 1
BitAt(lab, k) == (lab \div (2 ^ k)) % 2

\* the while loop of getvocpalette, for the three entries of class j
RECURSIVE VocLoop(_, _, _)
VocLoop(lab, i, rgb) ==
    IF lab > 0
    THEN VocLoop(lab \div 8, i + 1,
                 <<OrShifted(rgb[1], BitAt(lab, 0), 7 - i),
                   OrShifted(rgb[2], BitAt(lab, 1), 7 - i),
                   OrShifted(rgb[3], BitAt(lab, 2), 7 - i)>>)
    ELSE rgb

\* getvocpalette(num_cls), as the colour of each class instead of a flat list
getvocpalette(num_cls) == [j \in 0..(num_cls - 1) |-> VocLoop(j, 0, <<0, 0, 0>>)]

\* palette = getvocpalette(256)
PaletteSize == 256

\* the label display_predictions rewrites, and what it rewrites it to
IgnoreLabel == -1
IgnoreIndex == 255

\* numpy's astype("uint8") on an integer
AsUint8(v) == v % 256

DpIdle ==
    /\ predictions = <<>>
    /\ dp_pc = "idle"
    /\ npimg = <<>>
    /\ mask = <<>>
    /\ shown = <<>>

\* display_predictions is called on a prediction map
DpInit ==
    /\ predictions \in SeqsUpTo(Labels, MaxPixels) \ {<<>>}
    /\ dp_pc = "array"
    /\ npimg = <<>>
    /\ mask = <<>>
    /\ shown = <<>>

\* npimg = np.array(predictions)
ToArray ==
    /\ dp_pc = "array"
    /\ npimg' = predictions
    /\ dp_pc' = "ignore"
    /\ UNCHANGED <<NotDp, predictions, mask, shown>>

\* the unlabelled pixels painted as background instead
MapIgnoreLabel_ToBackground ==
    /\ dp_pc = "ignore"
    /\ npimg' = [i \in DOMAIN npimg |-> IF npimg[i] = IgnoreLabel THEN 0 ELSE npimg[i]]
    /\ dp_pc' = "mask"
    /\ UNCHANGED <<NotDp, predictions, mask, shown>>

\* npimg[npimg == -1] = 255
MapIgnoreLabel ==
    /\ dp_pc = "ignore"
    /\ npimg' = [i \in DOMAIN npimg |->
                    IF npimg[i] = IgnoreLabel THEN IgnoreIndex ELSE npimg[i]]
    /\ dp_pc' = "mask"
    /\ UNCHANGED <<NotDp, predictions, mask, shown>>

\* mask = Image.fromarray(npimg.astype("uint8"))
ToMask ==
    /\ dp_pc = "mask"
    /\ mask' = [i \in DOMAIN npimg |-> AsUint8(npimg[i])]
    /\ dp_pc' = "show"
    /\ UNCHANGED <<NotDp, predictions, npimg, shown>>

\* mask.putpalette(palette); plt.imshow(mask)
Show ==
    /\ dp_pc = "show"
    /\ shown' = [i \in DOMAIN mask |-> getvocpalette(PaletteSize)[mask[i]]]
    /\ dp_pc' = "done"
    /\ UNCHANGED <<NotDp, predictions, npimg, mask>>

DpNext ==
    \/ ToArray
    \/ MapIgnoreLabel
    \/ ToMask
    \/ Show

(***************************************************************************)
(* Specifications.  Each follows one part of the repository and leaves     *)
(* the state of the others at rest.                                        *)
(***************************************************************************)
MfIdle ==
    /\ model_list = <<>>
    /\ marker = <<>>
    /\ mf_pc = "idle"
    /\ mf_i = 0
    /\ loop_models = <<>>
    /\ all_versions = <<>>
    /\ eqa_models = <<>>

NbIdle ==
    /\ nb = "none"
    /\ manifest = <<>>
    /\ cell = 0
    /\ stmt = 0
    /\ status = "idle"
    /\ error = ""
    /\ ns = [n \in Names |-> Undef]
    /\ names_made = 0
    /\ endpoints = [e \in 1..MaxEndpoints |-> "none"]
    /\ models = [e \in 1..MaxEndpoints |-> "none"]
    /\ files = {}
    /\ events = <<>>
    /\ skipped = {}
    /\ selected = FALSE

\* a JumpStart notebook, run top to bottom
Init == NbInit /\ MfIdle /\ LnIdle /\ DpIdle
Next == NbNext
Spec == Init /\ [][Next]_vars

\* the manifest filters, statement by statement
InitManifest == MfInit /\ NbIdle /\ LnIdle /\ DpIdle
NextManifest == MfNext
SpecManifest == InitManifest /\ [][NextManifest]_vars

\* the lineage notebook, run top to bottom
InitLineage == LnInit /\ MfIdle /\ NbIdle /\ DpIdle
NextLineage == LnNext
SpecLineage == InitLineage /\ [][NextLineage]_vars

\* display_predictions, statement by statement
InitDisplay == DpInit /\ MfIdle /\ NbIdle /\ LnIdle
NextDisplay == DpNext
SpecDisplay == InitDisplay /\ [][NextDisplay]_vars

\* delete_experiment, called on any experiment
InitDeleteExperiment == DeleteExperimentInit /\ MfIdle /\ NbIdle /\ DpIdle
NextDeleteExperiment == DeleteExperimentNext
SpecDeleteExperiment == InitDeleteExperiment /\ [][NextDeleteExperiment]_vars

(***************************************************************************)
(* Properties.                                                             *)
(***************************************************************************)
IsOp(i, op, e) == events[i].op = op /\ events[i].ep = e

\* C1: no prediction is issued against an endpoint before the deploy call
\* that created it has returned, nor after delete_model or delete_endpoint
\* has been called on it.
C1_PredictOnlyOnLiveEndpoint ==
    \A i \in 1..Len(events) :
        events[i].op = "predict" =>
            /\ \E j \in 1..(i - 1) : IsOp(j, "deploy", events[i].ep)
            /\ \A k \in 1..(i - 1) :
                   ~(IsOp(k, "delete_model", events[i].ep)
                     \/ IsOp(k, "delete_endpoint", events[i].ep))

\* the question-answering notebook has run through: both endpoints were
\* queried, the second through the redefined query_endpoint
C1_Witness ==
    /\ nb = "question_answering"
    /\ status = "done"
    /\ \E i, j \in 1..Len(events) :
           /\ i < j
           /\ events[i].op = "predict" /\ events[i].ep = 1
           /\ events[j].op = "predict" /\ events[j].ep = 2

\* C2: when a notebook has run to completion, every endpoint it deployed is
\* torn down: each deploy is followed by delete_model and then
\* delete_endpoint on the predictor it returned, and no endpoint is live.
C2_EveryEndpointTornDown ==
    status = "done" =>
        /\ \A e \in DOMAIN endpoints : endpoints[e] # "InService"
        /\ \A i \in 1..Len(events) :
               events[i].op = "deploy" =>
                   \E j \in (i + 1)..Len(events) :
                       /\ IsOp(j, "delete_model", events[i].ep)
                       /\ \E k \in (j + 1)..Len(events) :
                              IsOp(k, "delete_endpoint", events[i].ep)

\* a notebook with two deployments has run through
C2_Witness ==
    /\ status = "done"
    /\ Cardinality({i \in 1..Len(events) : events[i].op = "deploy"}) = 2

NoDuplicates(l) == \A i, j \in 1..Len(l) : l[i] = l[j] => i = j

FirstIndex(l, x) == CHOOSE i \in 1..Len(l) : l[i].model_id = x /\ \A j \in 1..(i - 1) : l[j].model_id # x

\* C5: the list offered for selection holds exactly the model ids of the
\* manifest that contain the marker, each once, in the order of their first
\* occurrence; the loop form and the comprehension form yield the same list.
C5_FilteredModels ==
    mf_pc = "done" =>
        /\ {loop_models[i] : i \in 1..Len(loop_models)}
             = {model_list[i].model_id : i \in {k \in 1..Len(model_list) :
                                                  Contains(marker, model_list[k].model_id)}}
        /\ NoDuplicates(loop_models)
        /\ \A i, j \in 1..Len(loop_models) :
               i < j => FirstIndex(model_list, loop_models[i])
                          < FirstIndex(model_list, loop_models[j])
        /\ eqa_models = loop_models

\* both forms have run on a manifest that repeats a matching model id
\* around a second matching one
C5_Witness ==
    /\ mf_pc = "done"
    /\ Len(all_versions) > Len(eqa_models)
    /\ Len(loop_models) = 2

\* C6: the model-selection cell of the question-answering notebook may be
\* skipped: the later cells then run on, and the model id they use is the
\* default unless an entry of the dropdown was picked.
C6_SelectionCellIsOptional ==
    nb = "question_answering" =>
        /\ skipped # {} => error # "NameError"
        /\ \A n \in {"infer_model_id", "model_id"} :
               (~selected /\ ns[n].k # "undef") => ns[n].id = EqaDefault

\* the statement of the SDK-helper cell that fetches the pipeline executions
PipelineCell == CHOOSE k \in 1..Len(LineageNotebook) : LineageNotebook[k].kind = "pipeline"

\* the resources the Cleanup section is to remove
CreatedResources ==
    {"experiment", "trial", "trial_component", "model_package_group", "model_package",
     "endpoint", "experiments-demo/train.csv", "experiments-demo/validation.csv"}

Before(q, a, b) ==
    \E i, j \in 1..Len(q) : i < j /\ q[i] = a /\ q[j] = b

\* C3 as stated: an external call that fails stops the run, nothing catches
\* the failure and goes on.
C3_FailureStopsTheRun ==
    ~ln_last.ok => ln_status = "error"

\* C3, amended: an external call that fails stops the run, except where the
\* code handles the failure and goes on: the shell commands (`!pip install`
\* and the commands execute_cmd runs in the install functions), whose exit
\* status is at most used to pick a branch; to_lineage_object() inside the
\* try blocks of the two direction loops; tc.delete() in delete_experiment.
C3_FailureStopsUnlessHandled ==
    /\ (~ln_last.ok /\ ln_status # "error") =>
           \/ ln_last.line \in {567, 649}
           \/ ln_last.line \in {638, 639}
           \/ ln_last.site = "to_lineage_object" /\ ln_last.line \in {1297, 1317}
           \/ ln_last.site = "tc.delete"
    /\ ln_error = "CallError" => ~ln_last.ok

\* tc.delete() failed and delete_experiment is back at the head of its loop
C3_Witness ==
    /\ ln_status = "running"
    /\ ln_at = "component"
    /\ ~ln_last.ok
    /\ ln_last.site = "tc.delete"

C7_CleanupLeavesNothing ==
    ln_status = "done" =>
        /\ ln_exists \cap CreatedResources = {}
        /\ Before(ln_deleted, "model_package", "model_package_group")

\* C8: the SDK-helper cell prints every pipeline execution of the endpoint,
\* none when there is none, and raises nothing.
C8_PipelineExecutionsPrinted ==
    /\ (ln_pc = PipelineCell /\ ln_at = "if") => ln_error # "NameError"
    /\ ln_pc > PipelineCell => ln_printed = ln_pe

\* C12: in section 4.4 of the semantic-segmentation notebook the fine-tuned
\* endpoint is queried with the file the download just before the query wrote.
C12_FinetunedQueryReadsDownloadedImage ==
    nb = "semantic_segmentation" =>
        \A i \in 1..Len(events) :
            (/\ events[i].op = "predict"
             /\ ns["finetuned_predictor"].k # "undef"
             /\ events[i].ep = ns["finetuned_predictor"].ep) =>
                \E j \in 1..(i - 1) :
                    /\ events[j].op = "download"
                    /\ \A k \in (j + 1)..(i - 1) : events[k].op # "download"
                    /\ events[j].file = events[i].file

\* C11 as stated: two pixels get the same palette index exactly when they
\* carry the same label.
C11_SameIndexIffSameLabel ==
    dp_pc = "done" =>
        \A i, j \in DOMAIN predictions :
            mask[i] = mask[j] <=> predictions[i] = predictions[j]

\* C11, amended: two pixels get the same palette index exactly when they
\* carry the same label, the labels -1 and 255 counting as one (both are
\* drawn with index 255).
C11_SameIndexIffSameLabelUpToIgnore ==
    dp_pc = "done" =>
        \A i, j \in DOMAIN predictions :
            mask[i] = mask[j] <=>
                \/ predictions[i] = predictions[j]
                \/ {predictions[i], predictions[j]} = {-1, 255}

\* a map with an unlabelled pixel, a pixel of label 255 and a third label
\* has been displayed
C11_Witness ==
    /\ dp_pc = "done"
    /\ \E i, j, k \in DOMAIN predictions :
           /\ predictions[i] = -1
           /\ predictions[j] = 255
           /\ predictions[k] \notin {-1, 255}

\* C13: whatever experiment delete_experiment is called on, with any number of
\* trials including none, it deletes the experiment, prints the confirmation and
\* returns normally: once the experiment is deleted nothing raises, and the only
\* thing that stops the function early is a call of the service that failed.
C13_DeleteExperimentReturnsNormally ==
    /\ ln_status = "error" => (ln_error = "CallError" /\ ~ln_last.ok)
    /\ ln_status = "done" => "experiment" \notin ln_exists

\* C14: in delete_experiment, a trial is deleted only after remove_trial_component
\* has been called for every one of its trial components (when trial.delete()
\* is called the trial has no component left), and the experiment is deleted only
\* after every one of its trials has been deleted (when experiment.delete() is
\* called no trial is left).
C14_ComponentsThenTrialsThenExperiment ==
    /\ ln_last.site = "trial.delete" => ComponentsOf(ln_last.arg) = {}
    /\ ln_last.site = "experiment.delete" => ln_exists \cap TrialNames = {}

\* two trials with components between them, all removed and deleted, then the experiment
C14_Witness ==
    /\ ln_status = "done"
    /\ Len(ln_trials) >= 2
    /\ \E c \in ComponentNames, i, j \in 1..Len(ln_deleted) :
          /\ i < j
          /\ ln_deleted[i] = c
          /\ ln_deleted[j] \in TrialNames
    /\ ln_deleted[Len(ln_deleted)] = "experiment"

\* C15: every call of the SageMaker API the lineage notebook makes goes through
\* the client configured with the retry settings (max_attempts 50, adaptive
\* mode), sm_client itself or the sagemaker_session built on it; no call goes
\* through a default, unconfigured client.
C15_EveryCallThroughConfiguredClient ==
    ln_last.client # "none" => ln_last.client \in ConfiguredClients

====
